---- MODULE Spec2Model ----
(***************************************************************************)
(* A model of the application bootstrap module app.py of the Bedwars       *)
(* leaderboard: the database URL configuration, the two template filters   *)
(* (unique, hex_to_rgb), the per-request hooks (start_request_timer,       *)
(* add_performance_headers, the compression middleware) and the schema     *)
(* rebuild and seed pass run at import time.                               *)
(*                                                                         *)
(* Character strings that the code inspects or builds character by         *)
(* character are sequences of one-character strings; header values and     *)
(* names that the code only copies are TLA+ strings.                       *)
(***************************************************************************)
EXTENDS Integers, Sequences, FiniteSets, TLC

VARIABLES
    \* ---- startup initialisation (app.py 131-197)
    pc,            \* position of the import-time initialisation block
    seedIdx,       \* index into SeedOrder of the next seed block
    tables,        \* the entity tables in the database: absent / partial / present
    rows,          \* rows[k]: table of seedable kind k holds at least one row
    events,        \* the database calls made so far, in order, with their outcome
    errorLogged,   \* app.logger.error was called by the outer handler
    \* ---- database URL configuration (app.py 36-44)
    cfgPc,         \* "env" before the configuration lines ran, "set" after
    envUrl,        \* os.environ.get('DATABASE_URL'): NoUrl or a character sequence
    dbUri,         \* app.config['SQLALCHEMY_DATABASE_URI']
    \* ---- template filters (app.py 55-82)
    fPc,           \* "arg" before the filter ran, "ret" after
    uniqArg,       \* the list handed to unique_filter, as the caller built it
    uniqLst,       \* that same list object, as it is after the call
    uniqRes,       \* unique_filter's return value
    hexArg,        \* the string handed to hex_to_rgb_filter
    hexRes,        \* hex_to_rgb_filter's return value
    \* ---- one request through the hooks (app.py 92-120, 25-33)
    rPc,           \* "idle", "begun", "timed", "viewed", "sent"
    req,           \* the request: matched endpoint and Accept-Encoding
    g,             \* flask.g: a function whose domain holds "start_time" once set
    clock,         \* time.time() as last read, in hundredths of a millisecond
    resp,          \* the response: content type, body length, compressed flag, headers
    ranHook,       \* add_performance_headers ran on this response
    ranCompress    \* the compression middleware ran on this response

startupVars == <<pc, seedIdx, tables, rows, events, errorLogged>>
cfgVars     == <<cfgPc, envUrl, dbUri>>
filterVars  == <<fPc, uniqArg, uniqLst, uniqRes, hexArg, hexRes>>
requestVars == <<rPc, req, g, clock, resp, ranHook, ranCompress>>
vars        == <<startupVars, cfgVars, filterVars, requestVars>>

\* What each component leaves alone.
notStartup == <<cfgVars, filterVars, requestVars>>
notCfg     == <<startupVars, filterVars, requestVars>>
notFilter  == <<startupVars, cfgVars, requestVars>>
notRequest == <<startupVars, cfgVars, filterVars>>

(***************************************************************************)
(* Startup initialisation                                                  *)
(***************************************************************************)

\* The seed blocks in the order the file lists them.
SeedOrder ==
    << "SiteTheme", "Quest", "Achievement", "CustomTitle",
       "GradientTheme", "CursorTheme", "ShopItem", "Badge" >>

Kinds == { SeedOrder[i] : i \in 1..Len(SeedOrder) }

Event(op, kind, res) == [op |-> op, kind |-> kind, res |-> res]

\* What a failed DDL pass may leave behind: the tables as they were, or only
\* some of them.
AfterFailedDdl(t) == {t, "partial"}

\* The idle values of the startup variables, used by the other specifications.
StartupIdle ==
    /\ pc = "ready"
    /\ seedIdx = 1
    /\ tables = "present"
    /\ rows = [k \in Kinds |-> FALSE]
    /\ events = << >>
    /\ errorLogged = FALSE

\* The process enters the initialisation block with a database that is fresh
\* (no tables) or left by an earlier run (tables, seeded).
StartupInit ==
    /\ pc = "drop"
    /\ seedIdx = 1
    /\ tables \in {"absent", "partial", "present"}
    /\ rows \in { [k \in Kinds |-> FALSE], [k \in Kinds |-> tables # "absent"] }
    /\ events = << >>
    /\ errorLogged = FALSE

\* Fault: the outer handler is missing, so the error leaves the module body.
OuterExceptMissing ==
    /\ errorLogged' = errorLogged
    /\ pc' = "aborted"

\* except Exception as e: app.logger.error(...); startup continues.
OuterExcept ==
    /\ errorLogged' = TRUE
    /\ pc' = "ready"

\* db.drop_all()
DropAll ==
    /\ pc = "drop"
    /\ \/ /\ tables' = "absent"
          /\ rows' = [k \in Kinds |-> FALSE]
          /\ events' = Append(events, Event("drop_all", "-", "ok"))
          /\ pc' = "create"
          /\ UNCHANGED errorLogged
       \/ /\ tables' \in (IF tables = "absent" THEN {"absent"} ELSE AfterFailedDdl(tables))
          /\ events' = Append(events, Event("drop_all", "-", "raised"))
          /\ OuterExcept
          /\ UNCHANGED rows
    /\ UNCHANGED <<seedIdx, notStartup>>

\* Fault: the two DDL calls are swapped, so the drop runs last.
CreateAllThenDrop ==
    /\ pc = "create"
    /\ \/ /\ tables' = "absent"
          /\ events' = Append(events, Event("create_all", "-", "ok"))
          /\ pc' = "probe"
          /\ UNCHANGED errorLogged
       \/ /\ tables' \in AfterFailedDdl(tables)
          /\ events' = Append(events, Event("create_all", "-", "raised"))
          /\ OuterExcept
    /\ UNCHANGED <<seedIdx, rows, notStartup>>

\* db.create_all()
CreateAll ==
    /\ pc = "create"
    /\ \/ /\ tables' = "present"
          /\ events' = Append(events, Event("create_all", "-", "ok"))
          /\ pc' = "probe"
          /\ UNCHANGED errorLogged
       \/ /\ tables' \in AfterFailedDdl(tables)
          /\ events' = Append(events, Event("create_all", "-", "raised"))
          /\ OuterExcept
    /\ UNCHANGED <<seedIdx, rows, notStartup>>

\* db.session.execute(db.text('SELECT 1')).fetchone()
Probe ==
    /\ pc = "probe"
    /\ \/ /\ events' = Append(events, Event("probe", "-", "ok"))
          /\ pc' = "seed"
          /\ UNCHANGED errorLogged
       \/ /\ events' = Append(events, Event("probe", "-", "raised"))
          /\ OuterExcept
    /\ UNCHANGED <<seedIdx, tables, rows, notStartup>>

\* The kinds a default-creation routine of kind SeedOrder[i] may insert rows
\* for besides its own: none, or the kind seeded next.
AlsoSeeded(i) ==
    {{}} \cup (IF i < Len(SeedOrder) THEN {{SeedOrder[i + 1]}} ELSE {})

\* <Kind>.create_default_...(): on success the kind's table holds rows.
CreateDefaults(k, also) ==
    rows' = [x \in Kinds |-> IF x = k \/ x \in also THEN TRUE ELSE rows[x]]

\* After a seed block: the next block, or the end of the try body.
AfterSeedBlock ==
    /\ seedIdx' = seedIdx + 1
    /\ pc' = IF seedIdx = Len(SeedOrder) THEN "ready" ELSE "seed"
    /\ UNCHANGED errorLogged

\* Fault: a seed block has no handler of its own, so its error reaches the
\* outer handler and the remaining blocks are skipped.
SeedExceptMissing ==
    /\ OuterExcept
    /\ UNCHANGED seedIdx

\* except: pass
SeedExcept == AfterSeedBlock

\* Fault: the routine is called whatever count() returned.
SeedStepNoCheck ==
    /\ pc = "seed"
    /\ LET k == SeedOrder[seedIdx] IN
       \/ /\ events' = Append(events, Event("count", k, "raised"))
          /\ SeedExcept
          /\ UNCHANGED rows
       \/ /\ \E also \in AlsoSeeded(seedIdx) : CreateDefaults(k, also)
          /\ events' = events \o << Event("count", k, IF rows[k] THEN "nonempty" ELSE "empty"),
                                    Event("create", k, "ok") >>
          /\ AfterSeedBlock
       \/ /\ events' = events \o << Event("count", k, IF rows[k] THEN "nonempty" ELSE "empty"),
                                    Event("create", k, "raised") >>
          /\ SeedExcept
          /\ UNCHANGED rows
    /\ UNCHANGED <<tables, notStartup>>

\* try: if <Kind>.query.count() == 0: <Kind>.create_default_...()
\* except: pass
SeedStep ==
    /\ pc = "seed"
    /\ LET k == SeedOrder[seedIdx] IN
       \/ \* count() raises
          /\ events' = Append(events, Event("count", k, "raised"))
          /\ SeedExcept
          /\ UNCHANGED rows
       \/ \* count() finds rows: the routine is not called
          /\ rows[k]
          /\ events' = Append(events, Event("count", k, "nonempty"))
          /\ AfterSeedBlock
          /\ UNCHANGED rows
       \/ \* count() == 0 and the routine succeeds
          /\ ~rows[k]
          /\ \E also \in AlsoSeeded(seedIdx) : CreateDefaults(k, also)
          /\ events' = events \o << Event("count", k, "empty"), Event("create", k, "ok") >>
          /\ AfterSeedBlock
       \/ \* count() == 0 and the routine raises
          /\ ~rows[k]
          /\ events' = events \o << Event("count", k, "empty"), Event("create", k, "raised") >>
          /\ SeedExcept
          /\ UNCHANGED rows
    /\ UNCHANGED <<tables, notStartup>>

StartupNext == DropAll \/ CreateAll \/ Probe \/ SeedStep

(***************************************************************************)
(* Properties of the startup initialisation                                *)
(***************************************************************************)

IdxOf(k) == CHOOSE i \in 1..Len(SeedOrder) : SeedOrder[i] = k

IsSeedEvent(e) == e.op \in {"count", "create"}

\* The place of a database call in the order the file writes them.
Rank(e) ==
    CASE e.op = "drop_all"   -> 1
      [] e.op = "create_all" -> 2
      [] e.op = "probe"      -> 3
      [] e.op = "count"      -> 2 + 2 * IdxOf(e.kind)
      [] e.op = "create"     -> 3 + 2 * IdxOf(e.kind)

Happened(op, kind, res) ==
    \E i \in DOMAIN events : events[i] = Event(op, kind, res)

\* The seed block of kind k was entered: its emptiness check was made.
Attempted(k) == \E i \in DOMAIN events : events[i].op = "count" /\ events[i].kind = k

\* The seed block of kind k raised, in its check or in its routine.
SeedRaised(k) == Happened("count", k, "raised") \/ Happened("create", k, "raised")

\* drop_all, create_all or the probe raised.
RebuildRaised ==
    \E op \in {"drop_all", "create_all", "probe"} : Happened(op, "-", "raised")

LaterKinds(k) == { SeedOrder[j] : j \in (IdxOf(k) + 1)..Len(SeedOrder) }

\* C1, as stated: once startup is over, every seed block after one that
\* raised was attempted and its table holds rows.
C1_LaterSeedsPopulated ==
    pc = "ready" =>
        \A k \in Kinds : SeedRaised(k) =>
            \A j \in LaterKinds(k) : Attempted(j) /\ rows[j]

\* C1, amended: once startup is over, every seed block after one that raised
\* was attempted, and its table holds rows unless that later block raised too.
C1_LaterSeedsAttempted ==
    pc = "ready" =>
        \A k \in Kinds : SeedRaised(k) =>
            \A j \in LaterKinds(k) : Attempted(j) /\ (~SeedRaised(j) => rows[j])

\* The first seed routine raised and the last table was still populated.
C1_Witness ==
    /\ pc = "ready"
    /\ Happened("create", SeedOrder[1], "raised")
    /\ Happened("create", SeedOrder[Len(SeedOrder)], "ok")
    /\ rows[SeedOrder[Len(SeedOrder)]]

\* C2, as stated: when any initialisation step (drop, recreate, probe, a seed
\* block) raised, the error is logged and startup reaches the ready state.
C2_AnyErrorLogged ==
    (pc \in {"ready", "aborted"} /\ (RebuildRaised \/ \E k \in Kinds : SeedRaised(k)))
        => (pc = "ready" /\ errorLogged)

\* C2, amended: startup never aborts and never stops short of the ready state;
\* an error of the drop, the recreation or the probe is logged, and an error of
\* a seed block is discarded without being logged.
C2_StartupCompletes ==
    /\ pc # "aborted"
    /\ pc # "ready" => ENABLED StartupNext
    /\ RebuildRaised => (pc = "ready" /\ errorLogged)
    /\ ~RebuildRaised => ~errorLogged

\* The database was unreachable from the first call on, and startup completed.
C2_Witness ==
    /\ pc = "ready"
    /\ Happened("drop_all", "-", "raised")
    /\ errorLogged

\* C3, as stated: in the ready state the tables of all entities are present.
C3_TablesPresentWhenReady ==
    pc = "ready" => tables = "present"

\* C3, amended: in the ready state the tables of all entities are present
\* when the recreation succeeded, also when the probe failed after it.
C3_TablesPresentAfterCreate ==
    (pc = "ready" /\ Happened("create_all", "-", "ok")) => tables = "present"

\* The drop and the recreation succeeded, the probe failed, the tables are there.
C3_Witness ==
    /\ pc = "ready"
    /\ Happened("probe", "-", "raised")
    /\ tables = "present"

\* C10: the database calls are made in the order drop, recreate, probe, then
\* the seed blocks in SeedOrder, none skipped; a routine is called only right
\* after its own check found the table empty; a seed block runs only after the
\* drop, the recreation and the probe succeeded; a complete run without a
\* rebuild error enters all the seed blocks.
C10_StartupOrder ==
    /\ \A i, j \in DOMAIN events : i < j => Rank(events[i]) < Rank(events[j])
    /\ \A i \in DOMAIN events :
          /\ (i > 1 /\ ~IsSeedEvent(events[i])) =>
                (Rank(events[i - 1]) = Rank(events[i]) - 1 /\ events[i - 1].res = "ok")
          /\ events[i].op = "count" =>
                /\ i > 1
                /\ IF IdxOf(events[i].kind) = 1
                   THEN events[i - 1] = Event("probe", "-", "ok")
                   ELSE /\ IsSeedEvent(events[i - 1])
                        /\ events[i - 1].kind = SeedOrder[IdxOf(events[i].kind) - 1]
          /\ events[i].op = "create" =>
                (i > 1 /\ events[i - 1] = Event("count", events[i].kind, "empty"))
    /\ events # << >> => events[1].op = "drop_all"
    /\ (\E i \in DOMAIN events : IsSeedEvent(events[i])) =>
          /\ ~RebuildRaised
          /\ Happened("drop_all", "-", "ok")
          /\ Happened("create_all", "-", "ok")
          /\ Happened("probe", "-", "ok")
    /\ RebuildRaised => pc = "ready"
    /\ (pc = "ready" /\ ~RebuildRaised) => \A k \in Kinds : Attempted(k)

\* A complete run in which one table was found populated and its routine was
\* not called, while another was found empty and seeded.
C10_Witness ==
    /\ pc = "ready"
    /\ \E k \in Kinds : Happened("count", k, "nonempty")
    /\ \E k \in Kinds : Happened("create", k, "ok")

(***************************************************************************)
(* Character strings                                                       *)
(***************************************************************************)

\* A str value, and None.
Str(s) == [given |-> TRUE, text |-> s]
None == [given |-> FALSE, text |-> << >>]

\* Python truthiness of an optional string: None and "" are false.
Truthy(v) == v.given /\ v.text # << >>

\* s.startswith(p)
StartsWith(s, p) == Len(s) >= Len(p) /\ SubSeq(s, 1, Len(p)) = p

\* s.find(old) + 1: the first place old occurs in s, 0 when it does not.
Find(s, old) ==
    LET hits == { i \in 1..(Len(s) - Len(old) + 1) : SubSeq(s, i, i + Len(old) - 1) = old }
    IN  IF hits = {} THEN 0 ELSE CHOOSE i \in hits : \A j \in hits : i <= j

\* s.replace(old, new, 1)
ReplaceFirst(s, old, new) ==
    LET at == Find(s, old)
    IN  IF at = 0 THEN s
        ELSE SubSeq(s, 1, at - 1) \o new \o SubSeq(s, at + Len(old), Len(s))

\* s.replace(old, new): every occurrence, left to right, not overlapping.
RECURSIVE ReplaceAll(_, _, _)
ReplaceAll(s, old, new) ==
    LET at == Find(s, old)
    IN  IF at = 0 THEN s
        ELSE SubSeq(s, 1, at - 1) \o new
             \o ReplaceAll(SubSeq(s, at + Len(old), Len(s)), old, new)

RECURSIVE Flatten(_)
Flatten(ss) == IF ss = << >> THEN << >> ELSE Head(ss) \o Flatten(Tail(ss))

\* The sequences over S of length at most n.
SeqsUpTo(S, n) == UNION { [1..m -> S] : m \in 0..n }

(***************************************************************************)
(* Database URL configuration                                              *)
(***************************************************************************)

LegacyScheme == << "p", "o", "s", "t", "g", "r", "e", "s", ":", "/", "/" >>
CurrentScheme == << "p", "o", "s", "t", "g", "r", "e", "s", "q", "l", ":", "/", "/" >>

\* f'sqlite:///{os.path.join(instance_dir, "bedwars_leaderboard.db")}'
SqliteUri ==
    << "s", "q", "l", "i", "t", "e", ":", "/", "/", "/",
       "<instance_dir>", "/", "bedwars_leaderboard.db" >>

\* The pieces the modelled DATABASE_URL values are put together from.
UrlParts ==
    { << "p", "o", "s", "t", "g", "r", "e", "s" >>, << "q", "l" >>,
      << ":", "/", "/" >>, << "h" >> }

MaxUrlParts == 4

EnvUrls == {None} \cup { Str(Flatten(ps)) : ps \in SeqsUpTo(UrlParts, MaxUrlParts) }

CfgInit ==
    /\ cfgPc = "env"
    /\ envUrl \in EnvUrls
    /\ dbUri = << >>

\* Fault: the replace is not limited to one substitution.
RewriteEveryScheme(url) ==
    IF Truthy(url) /\ StartsWith(url.text, LegacyScheme)
    THEN Str(ReplaceAll(url.text, LegacyScheme, CurrentScheme))
    ELSE url

\* if database_url and database_url.startswith('postgres://'):
\*     database_url = database_url.replace('postgres://', 'postgresql://', 1)
RewriteLegacyScheme(url) ==
    IF Truthy(url) /\ StartsWith(url.text, LegacyScheme)
    THEN Str(ReplaceFirst(url.text, LegacyScheme, CurrentScheme))
    ELSE url

\* Lines 36-44: read the variable, rewrite the scheme, fall back to SQLite.
Configure ==
    /\ cfgPc = "env"
    /\ LET database_url == RewriteLegacyScheme(envUrl)
       IN  dbUri' = IF Truthy(database_url) THEN database_url.text ELSE SqliteUri
    /\ cfgPc' = "set"
    /\ UNCHANGED <<envUrl, notCfg>>

CfgNext == Configure

\* C6: a URL starting with postgres:// has that leading scheme, and nothing
\* else, replaced by postgresql://; any other non-empty URL, one starting with
\* postgresql:// included, is used unchanged; with no URL (or an empty one) the
\* SQLite file in the instance directory is used.
C6_UrlRewrite ==
    cfgPc = "set" =>
        IF ~Truthy(envUrl) THEN dbUri = SqliteUri
        ELSE IF StartsWith(envUrl.text, LegacyScheme)
             THEN /\ SubSeq(dbUri, 1, Len(CurrentScheme)) = CurrentScheme
                  /\ SubSeq(dbUri, Len(CurrentScheme) + 1, Len(dbUri))
                        = SubSeq(envUrl.text, Len(LegacyScheme) + 1, Len(envUrl.text))
             ELSE dbUri = envUrl.text

\* A legacy URL that holds postgres:// a second time was rewritten once.
C6_Witness ==
    /\ cfgPc = "set"
    /\ envUrl.given
    /\ StartsWith(envUrl.text, LegacyScheme)
    /\ Find(SubSeq(envUrl.text, 2, Len(envUrl.text)), LegacyScheme) > 0
    /\ dbUri # envUrl.text

(***************************************************************************)
(* Template filter: unique                                                 *)
(***************************************************************************)

MaxVal == 3
MaxLen == 5

\* The for loop of unique_filter, with its two locals.
RECURSIVE UniqueLoop(_, _, _)
UniqueLoop(lst, seen, result) ==
    IF lst = << >> THEN result
    ELSE LET item == Head(lst)
         IN  IF item \notin seen
             THEN UniqueLoop(Tail(lst), seen \cup {item}, Append(result, item))
             ELSE UniqueLoop(Tail(lst), seen, result)

\* Fault: an item is kept at its last occurrence, not its first.
RECURSIVE unique_filter_last(_)
unique_filter_last(lst) ==
    IF lst = << >> THEN << >>
    ELSE IF \E i \in 2..Len(lst) : lst[i] = Head(lst)
         THEN unique_filter_last(Tail(lst))
         ELSE << Head(lst) >> \o unique_filter_last(Tail(lst))

unique_filter(lst) == UniqueLoop(lst, {}, << >>)

UniqueInit ==
    /\ fPc = "arg"
    /\ uniqArg \in SeqsUpTo(1..MaxVal, MaxLen)
    /\ uniqLst = uniqArg
    /\ uniqRes = << >>
    /\ hexArg = None
    /\ hexRes = << >>

\* The template calls the filter; the list it was given is only read.
ApplyUnique ==
    /\ fPc = "arg"
    /\ uniqRes' = unique_filter(uniqLst)
    /\ fPc' = "ret"
    /\ UNCHANGED <<uniqArg, uniqLst, hexArg, hexRes, notFilter>>

UniqueNext == ApplyUnique

Range(s) == { s[i] : i \in DOMAIN s }

FirstAt(s, v) == CHOOSE i \in DOMAIN s : s[i] = v /\ \A j \in 1..(i - 1) : s[j] # v

\* C5: the result holds exactly the distinct values of the input, each once,
\* in the order of their first occurrence, and the input list is as it was.
C5_Unique ==
    fPc = "ret" =>
        /\ Range(uniqRes) = Range(uniqArg)
        /\ \A i, j \in DOMAIN uniqRes : i # j => uniqRes[i] # uniqRes[j]
        /\ \A i, j \in DOMAIN uniqRes :
              i < j => FirstAt(uniqArg, uniqRes[i]) < FirstAt(uniqArg, uniqRes[j])
        /\ uniqLst = uniqArg

\* The example of the specification: [3,1,3,2,1] gives [3,1,2].
C5_Witness ==
    /\ fPc = "ret"
    /\ uniqArg = << 3, 1, 3, 2, 1 >>
    /\ uniqRes = << 3, 1, 2 >>

(***************************************************************************)
(* Template filter: hex_to_rgb                                             *)
(***************************************************************************)

DecDigits == << "0", "1", "2", "3", "4", "5", "6", "7", "8", "9" >>
LowerHex == << "a", "b", "c", "d", "e", "f" >>
UpperHex == << "A", "B", "C", "D", "E", "F" >>

Base == Len(DecDigits) + Len(LowerHex)

IsHexDigit(c) ==
    \/ \E i \in DOMAIN DecDigits : DecDigits[i] = c
    \/ \E i \in DOMAIN LowerHex : LowerHex[i] = c
    \/ \E i \in DOMAIN UpperHex : UpperHex[i] = c

\* The value of one hexadecimal digit, either case.
HexVal(c) ==
    IF \E i \in DOMAIN DecDigits : DecDigits[i] = c
    THEN (CHOOSE i \in DOMAIN DecDigits : DecDigits[i] = c) - 1
    ELSE IF \E i \in DOMAIN LowerHex : LowerHex[i] = c
         THEN Len(DecDigits) + (CHOOSE i \in DOMAIN LowerHex : LowerHex[i] = c) - 1
         ELSE Len(DecDigits) + (CHOOSE i \in DOMAIN UpperHex : UpperHex[i] = c) - 1

\* The characters str.strip() removes, as far as the modelled inputs hold them.
Whitespace == { " ", "\t" }

RECURSIVE LStrip(_, _)
LStrip(s, chars) ==
    IF s # << >> /\ Head(s) \in chars THEN LStrip(Tail(s), chars) ELSE s

RECURSIVE RStrip(_, _)
RStrip(s, chars) ==
    IF s # << >> /\ s[Len(s)] \in chars THEN RStrip(SubSeq(s, 1, Len(s) - 1), chars) ELSE s

\* The value of a digit string in which single underscores may separate digits.
RECURSIVE DigitsValue(_, _)
DigitsValue(s, acc) ==
    IF s = << >> THEN acc
    ELSE IF Head(s) = "_" THEN DigitsValue(Tail(s), acc)
         ELSE DigitsValue(Tail(s), acc * Base + HexVal(Head(s)))

\* int(s, 16): surrounding whitespace is dropped, then an optional sign, an
\* optional 0x prefix, and hexadecimal digits with single underscores between
\* them; anything else is a ValueError.
int16(s) ==
    LET t      == RStrip(LStrip(s, Whitespace), Whitespace)
        signed == t # << >> /\ Head(t) \in {"+", "-"}
        u      == IF signed THEN Tail(t) ELSE t
        pre    == Len(u) >= 2 /\ u[1] = "0" /\ u[2] \in {"x", "X"}
        v      == IF pre THEN SubSeq(u, 3, Len(u)) ELSE u
        d      == IF pre /\ v # << >> /\ Head(v) = "_" THEN Tail(v) ELSE v
        wellFormed ==
            /\ d # << >>
            /\ \A i \in DOMAIN d : IsHexDigit(d[i]) \/ d[i] = "_"
            /\ IsHexDigit(d[1]) /\ IsHexDigit(d[Len(d)])
            /\ \A i \in 1..(Len(d) - 1) : ~(d[i] = "_" /\ d[i + 1] = "_")
        mag    == DigitsValue(d, 0)
    IN  IF wellFormed
        THEN [ok |-> TRUE, val |-> IF signed /\ Head(t) = "-" THEN 0 - mag ELSE mag]
        ELSE [ok |-> FALSE, val |-> 0]

\* The digits of a natural number in base 10.
RECURSIVE NatToDec(_)
NatToDec(n) ==
    IF n < Len(DecDigits) THEN << DecDigits[n + 1] >>
    ELSE Append(NatToDec(n \div Len(DecDigits)), DecDigits[(n % Len(DecDigits)) + 1])

\* f"{n}" of an int.
IntToDec(n) == IF n < 0 THEN << "-" >> \o NatToDec(0 - n) ELSE NatToDec(n)

Black == << "0", ",", " ", "0", ",", " ", "0" >>

\* f"{r}, {g}, {b}"
RgbText(r, gr, b) == IntToDec(r) \o << ",", " " >> \o IntToDec(gr) \o << ",", " " >> \o IntToDec(b)

hex_to_rgb_filter(hex_color) ==
    IF ~Truthy(hex_color) \/ ~StartsWith(hex_color.text, << "#" >>) THEN Black
    ELSE LET body == LStrip(hex_color.text, {"#"})
         IN  IF Len(body) # 6 THEN Black
             ELSE LET r  == int16(SubSeq(body, 1, 2))
                      gr == int16(SubSeq(body, 3, 4))
                      b  == int16(SubSeq(body, 5, 6))
                  IN  IF r.ok /\ gr.ok /\ b.ok THEN RgbText(r.val, gr.val, b.val) ELSE Black

\* The two-character groups the modelled colour strings are put together from:
\* hexadecimal digits of both cases and of the specification's examples,
\* letters that are no digits, signs, blanks, a prefix, underscores, a '#'.
HexGroups ==
    { << "F", "F" >>, << "0", "0" >>, << "f", "f" >>, << "A", "B" >>, << "1", "2" >>,
      << "Z", "Z" >>, << "g", "0" >>, << "+", "f" >>, << "-", "1" >>, << " ", "7" >>,
      << "c", " " >>, << "0", "x" >>, << "_", "5" >>, << "#", "9" >> }

\* A group may be followed by one more character, for the odd lengths.
HexTails == { << >>, << "C" >> }

MaxHashes == 2
MaxGroups == 3

HexInputs ==
    {None} \cup
    { Str([i \in 1..n |-> "#"] \o Flatten(gs) \o t) :
        n \in 0..MaxHashes, gs \in SeqsUpTo(HexGroups, MaxGroups), t \in HexTails }

HexInit ==
    /\ fPc = "arg"
    /\ hexArg \in HexInputs
    /\ hexRes = << >>
    /\ uniqArg = << >> /\ uniqLst = << >> /\ uniqRes = << >>

ApplyHexToRgb ==
    /\ fPc = "arg"
    /\ hexRes' = hex_to_rgb_filter(hexArg)
    /\ fPc' = "ret"
    /\ UNCHANGED <<hexArg, uniqArg, uniqLst, uniqRes, notFilter>>

HexNext == ApplyHexToRgb

\* The text of a colour string without its leading '#' characters.
HexBody(v) == LStrip(v.text, {"#"})

\* The byte written by the two hexadecimal digits at i and i + 1.
HexByte(s, i) == Base * HexVal(s[i]) + HexVal(s[i + 1])

\* C4: the filter returns "0, 0, 0" for an absent or empty input, an input not
\* starting with '#', a body that is not 6 characters long or that holds a
\* character that is no hexadecimal digit; otherwise the three bytes of the
\* body in base 10, joined by ", ".
C4_HexToRgb ==
    fPc = "ret" =>
        IF \/ ~Truthy(hexArg)
           \/ hexArg.text[1] # "#"
           \/ Len(HexBody(hexArg)) # 6
           \/ \E i \in DOMAIN HexBody(hexArg) : ~IsHexDigit(HexBody(hexArg)[i])
        THEN hexRes = Black
        ELSE hexRes = RgbText(HexByte(HexBody(hexArg), 1), HexByte(HexBody(hexArg), 3),
                              HexByte(HexBody(hexArg), 5))

(***************************************************************************)
(* Request hooks and the compression middleware                            *)
(***************************************************************************)

\* request.endpoint when no route matched.
NoEndpoint == "<None>"

\* The static-file endpoint, the three cached pages, one more page, no match.
Endpoints == { "static", "index", "statistics", "shop", "leaderboard", NoEndpoint }

\* Values of the Accept-Encoding request header; << >> when it is not sent.
AcceptEncodings == { << >>, << "gzip" >>, << "deflate", ", ", "gzip" >>, << "br" >> }

\* Content types of responses, as pieces: type with '/', subtype, parameters.
Charset == "; charset=utf-8"

ContentTypes ==
    { << "text/", "html", Charset >>, << "text/", "csv", Charset >>,
      << "application/json" >>, << "application/javascript", Charset >>,
      << "application/xml" >>, << "image/", "png" >> }

\* response.mimetype: the content type without its parameters.
Mimetype(ct) == SelectSeq(ct, LAMBDA piece : piece # Charset)

\* app.config['COMPRESS_MIMETYPES']
COMPRESS_MIMETYPES ==
    { << "text/", "html" >>, << "text/", "css" >>, << "text/", "javascript" >>,
      << "application/javascript" >>, << "application/json" >>,
      << "application/xml" >>, << "text/", "xml" >>, << "text/", "plain" >> }

\* app.config['COMPRESS_MIN_SIZE']
COMPRESS_MIN_SIZE == 500

BodyLengths == { COMPRESS_MIN_SIZE - 1, COMPRESS_MIN_SIZE }

\* Headers a view may already have set on its response.
ViewHeaders == { << >>, [n \in {"Cache-Control"} |-> "no-store"] }

\* Seconds-to-milliseconds clock readings are kept in hundredths of a millisecond.
PerMs == 100

\* The latest reading of the clock when a request arrives.
MaxStart == 3

\* How far the clock moved between the two hooks: not at all, back (time.time()
\* is the wall clock), by hundredths, by whole milliseconds, by both.
ClockMoves == { -2, 0, 7, PerMs, 12 * PerMs + 34 }

Has(h, name) == name \in DOMAIN h

\* response.headers[name] = value
SetHeader(h, name, value) ==
    [n \in DOMAIN h \cup {name} |-> IF n = name THEN value ELSE h[n]]

Without(h, name) == [n \in DOMAIN h \ {name} |-> h[n]]

RequestInit ==
    /\ rPc = "idle"
    /\ req = [endpoint |-> NoEndpoint, accept |-> << >>]
    /\ g = << >>
    /\ clock = 0
    /\ resp = [content_type |-> << >>, length |-> 0, compressed |-> FALSE,
               fromView |-> << >>, headers |-> << >>]
    /\ ranHook = FALSE
    /\ ranCompress = FALSE

\* A request arrives; flask.g is fresh for it.
BeginRequest ==
    /\ rPc \in {"idle", "sent"}
    /\ \E e \in Endpoints, a \in AcceptEncodings :
          req' = [endpoint |-> e, accept |-> a]
    /\ g' = << >>
    /\ clock' \in 0..MaxStart
    /\ resp' = [content_type |-> << >>, length |-> 0, compressed |-> FALSE,
                fromView |-> << >>, headers |-> << >>]
    /\ ranHook' = FALSE
    /\ ranCompress' = FALSE
    /\ rPc' = "begun"
    /\ UNCHANGED notRequest

\* g.start_time = time.time()
start_request_timer ==
    /\ rPc = "begun"
    /\ g' = SetHeader(g, "start_time", clock)
    /\ rPc' = "timed"
    /\ UNCHANGED <<req, clock, resp, ranHook, ranCompress, notRequest>>

\* The view (or, when the request failed before the before-request functions
\* ran, the error handler) returns a response, some time later.
View ==
    /\ rPc \in {"begun", "timed"}
    /\ \E ct \in ContentTypes, n \in BodyLengths, h \in ViewHeaders :
          resp' = [content_type |-> ct, length |-> n, compressed |-> FALSE,
                   fromView |-> h, headers |-> h]
    /\ \E d \in ClockMoves : clock + d >= 0 /\ clock' = clock + d
    /\ rPc' = "viewed"
    /\ UNCHANGED <<req, g, ranHook, ranCompress, notRequest>>

\* The two digits of a number below 100.
TwoDigits(n) == << DecDigits[(n \div Len(DecDigits)) + 1], DecDigits[(n % Len(DecDigits)) + 1] >>

\* f"{(time.time() - g.start_time) * 1000:.2f}ms", elapsed in hundredths of a ms.
ResponseTime(elapsed) ==
    LET a == IF elapsed < 0 THEN 0 - elapsed ELSE elapsed
    IN  (IF elapsed < 0 THEN << "-" >> ELSE << >>)
        \o NatToDec(a \div PerMs) \o << "." >> \o TwoDigits(a % PerMs) \o << "m", "s" >>

\* Fault: a missing start time is read as 0 and the header is set all the same.
TimingHeaderAlways(h, gctx, now) ==
    SetHeader(h, "X-Response-Time",
              ResponseTime(now - (IF Has(gctx, "start_time") THEN gctx["start_time"] ELSE 0)))

\* if hasattr(g, 'start_time'): response.headers['X-Response-Time'] = ...
TimingHeader(h, gctx, now) ==
    IF Has(gctx, "start_time")
    THEN SetHeader(h, "X-Response-Time", ResponseTime(now - gctx["start_time"]))
    ELSE h

\* Fault: the expiry date is set for the cached pages too.
CachingHeadersExpiresToo(h, endpoint) ==
    IF endpoint = "static"
    THEN SetHeader(SetHeader(h, "Cache-Control", "public, max-age=31536000"),
                   "Expires", "Thu, 31 Dec 2025 23:59:59 GMT")
    ELSE IF endpoint \in {"index", "statistics", "shop"}
         THEN SetHeader(SetHeader(h, "Cache-Control", "public, max-age=300"),
                        "Expires", "Thu, 31 Dec 2025 23:59:59 GMT")
         ELSE h

\* if request.endpoint == 'static': ... elif request.endpoint in [...]: ...
CachingHeaders(h, endpoint) ==
    IF endpoint = "static"
    THEN SetHeader(SetHeader(h, "Cache-Control", "public, max-age=31536000"),
                   "Expires", "Thu, 31 Dec 2025 23:59:59 GMT")
    ELSE IF endpoint \in {"index", "statistics", "shop"}
         THEN SetHeader(h, "Cache-Control", "public, max-age=300")
         ELSE h

\* 'gzip' in request.headers.get('Accept-Encoding', '')
AcceptsGzip(accept) == Find(accept, << "gzip" >>) > 0

\* if 'gzip' in ...: if response.content_type.startswith((...)): Content-Encoding
CompressionHeader(h, accept, content_type) ==
    IF /\ AcceptsGzip(accept)
       /\ \/ StartsWith(content_type, << "text/" >>)
          \/ StartsWith(content_type, << "application/json" >>)
          \/ StartsWith(content_type, << "application/javascript" >>)
    THEN SetHeader(h, "Content-Encoding", "gzip")
    ELSE h

SecurityHeaders(h) ==
    SetHeader(SetHeader(SetHeader(h,
        "X-Content-Type-Options", "nosniff"),
        "X-Frame-Options", "DENY"),
        "X-XSS-Protection", "1; mode=block")

\* The headers of the response after add_performance_headers.
PerformanceHeaders(h, request, gctx, now, content_type) ==
    SecurityHeaders(
        CompressionHeader(
            CachingHeaders(TimingHeader(h, gctx, now), request.endpoint),
            request.accept, content_type))

add_performance_headers ==
    /\ rPc = "viewed"
    /\ ~ranHook
    /\ resp' = [resp EXCEPT !.headers =
                    PerformanceHeaders(resp.headers, req, g, clock, resp.content_type)]
    /\ ranHook' = TRUE
    /\ UNCHANGED <<rPc, req, g, clock, ranCompress, notRequest>>

\* The response is one the middleware compresses.
Compressible(request, response) ==
    /\ AcceptsGzip(request.accept)
    /\ Mimetype(response.content_type) \in COMPRESS_MIMETYPES
    /\ response.length >= COMPRESS_MIN_SIZE

\* The after-request function the Compress(app) call installs.
CompressAfterRequest ==
    /\ rPc = "viewed"
    /\ ~ranCompress
    /\ resp' = IF Compressible(req, resp)
               THEN [resp EXCEPT !.compressed = TRUE,
                                 !.headers = SetHeader(resp.headers, "Content-Encoding", "gzip")]
               ELSE resp
    /\ ranCompress' = TRUE
    /\ UNCHANGED <<rPc, req, g, clock, ranHook, notRequest>>

\* Both after-request functions ran: the response leaves.
Send ==
    /\ rPc = "viewed"
    /\ ranHook /\ ranCompress
    /\ rPc' = "sent"
    /\ UNCHANGED <<req, g, clock, resp, ranHook, ranCompress, notRequest>>

RequestNext ==
    BeginRequest \/ start_request_timer \/ View \/ add_performance_headers
        \/ CompressAfterRequest \/ Send

(***************************************************************************)
(* Properties of the request hooks                                         *)
(***************************************************************************)

IsDecDigit(c) == \E i \in DOMAIN DecDigits : DecDigits[i] = c

\* The number a string of decimal digits writes.
RECURSIVE DecToNat(_, _)
DecToNat(s, acc) ==
    IF s = << >> THEN acc
    ELSE DecToNat(Tail(s), acc * Len(DecDigits) + HexVal(Head(s)))

\* t reads [-]digits '.' digit digit 'm' 's'.
IsMsText(t) ==
    LET n     == Len(t)
        whole == SubSeq(t, 1, n - 5)
        mag   == IF whole # << >> /\ Head(whole) = "-" THEN Tail(whole) ELSE whole
    IN  /\ n >= 6
        /\ t[n - 1] = "m" /\ t[n] = "s"
        /\ t[n - 4] = "."
        /\ IsDecDigit(t[n - 3]) /\ IsDecDigit(t[n - 2])
        /\ mag # << >>
        /\ \A i \in DOMAIN mag : IsDecDigit(mag[i])

\* The time such a text states, in hundredths of a millisecond.
MsTextValue(t) ==
    LET n     == Len(t)
        whole == SubSeq(t, 1, n - 5)
        neg   == Head(whole) = "-"
        mag   == DecToNat(IF neg THEN Tail(whole) ELSE whole, 0) * PerMs
                    + DecToNat(SubSeq(t, n - 3, n - 2), 0)
    IN  IF neg THEN 0 - mag ELSE mag

\* C7: after the completion hook the response carries X-Response-Time exactly
\* when the start hook recorded a time for the request, and the header then
\* reads the elapsed milliseconds with two decimals and the suffix "ms"; the
\* hook sets the same other headers whether or not a start time was recorded.
C7_TimingHeader ==
    /\ ranHook =>
          /\ Has(resp.headers, "X-Response-Time") <=> Has(g, "start_time")
          /\ Has(g, "start_time") =>
                /\ IsMsText(resp.headers["X-Response-Time"])
                /\ MsTextValue(resp.headers["X-Response-Time"]) = clock - g["start_time"]
    /\ (rPc = "viewed" /\ ~ranHook) =>
          Without(PerformanceHeaders(resp.headers, req, g, clock, resp.content_type),
                  "X-Response-Time")
            = PerformanceHeaders(resp.headers, req, << >>, clock, resp.content_type)

\* A response sent 12.34 ms after the start hook ran.
C7_Witness ==
    /\ rPc = "sent"
    /\ Has(g, "start_time")
    /\ Has(resp.headers, "X-Response-Time")
    /\ resp.headers["X-Response-Time"] = << "1", "2", ".", "3", "4", "m", "s" >>

\* C8: after the completion hook, for the static endpoint Cache-Control is
\* public with a one-year max-age and Expires is the fixed date; for index,
\* statistics and shop Cache-Control is public with max-age 300 and Expires is
\* not set; for any other endpoint, or none, both are as the view left them;
\* the three security headers are set in every case.
C8_CachingHeaders ==
    ranHook =>
        /\ req.endpoint = "static" =>
              /\ Has(resp.headers, "Cache-Control")
              /\ resp.headers["Cache-Control"] = "public, max-age=31536000"
              /\ Has(resp.headers, "Expires")
              /\ resp.headers["Expires"] = "Thu, 31 Dec 2025 23:59:59 GMT"
        /\ req.endpoint \in {"index", "statistics", "shop"} =>
              /\ Has(resp.headers, "Cache-Control")
              /\ resp.headers["Cache-Control"] = "public, max-age=300"
              /\ ~Has(resp.headers, "Expires")
        /\ req.endpoint \notin {"static", "index", "statistics", "shop"} =>
              /\ Has(resp.headers, "Cache-Control") <=> Has(resp.fromView, "Cache-Control")
              /\ Has(resp.headers, "Cache-Control") =>
                    resp.headers["Cache-Control"] = resp.fromView["Cache-Control"]
              /\ ~Has(resp.headers, "Expires")
        /\ Has(resp.headers, "X-Content-Type-Options")
        /\ resp.headers["X-Content-Type-Options"] = "nosniff"
        /\ Has(resp.headers, "X-Frame-Options")
        /\ resp.headers["X-Frame-Options"] = "DENY"
        /\ Has(resp.headers, "X-XSS-Protection")
        /\ resp.headers["X-XSS-Protection"] = "1; mode=block"

\* The shop page, whose view had set its own Cache-Control, was sent cacheable
\* for 300 seconds and without an expiry date.
C8_Witness ==
    /\ rPc = "sent"
    /\ req.endpoint = "shop"
    /\ Has(resp.fromView, "Cache-Control")
    /\ resp.headers["Cache-Control"] = "public, max-age=300"
    /\ ~Has(resp.headers, "Expires")

\* C9: a response sent to a client accepting gzip, of an allow-listed type and
\* of at least the minimum size, is compressed and says so; and a response
\* that says Content-Encoding: gzip is compressed.
C9_GzipMeansCompressed ==
    rPc = "sent" =>
        /\ Compressible(req, resp) =>
              /\ resp.compressed
              /\ Has(resp.headers, "Content-Encoding")
              /\ resp.headers["Content-Encoding"] = "gzip"
        /\ (Has(resp.headers, "Content-Encoding") /\ resp.headers["Content-Encoding"] = "gzip")
              => resp.compressed

\* Idle values of the other components, for the specifications that leave them alone.
CfgIdle == cfgPc = "set" /\ envUrl = None /\ dbUri = SqliteUri

FilterIdle ==
    /\ fPc = "ret"
    /\ uniqArg = << >> /\ uniqLst = << >> /\ uniqRes = << >>
    /\ hexArg = None /\ hexRes = << >>

RequestIdle == RequestInit

InitStartup == StartupInit /\ CfgIdle /\ FilterIdle /\ RequestIdle

StartupSpec == InitStartup /\ [][StartupNext]_vars

InitCfg == CfgInit /\ StartupIdle /\ FilterIdle /\ RequestIdle

CfgSpec == InitCfg /\ [][CfgNext]_vars

InitUnique == UniqueInit /\ StartupIdle /\ CfgIdle /\ RequestIdle

UniqueSpec == InitUnique /\ [][UniqueNext]_vars

InitHex == HexInit /\ StartupIdle /\ CfgIdle /\ RequestIdle

HexSpec == InitHex /\ [][HexNext]_vars

InitRequest == RequestInit /\ StartupIdle /\ CfgIdle /\ FilterIdle

RequestSpec == InitRequest /\ [][RequestNext]_vars

====
